---- MODULE Spec2Model ----
(***************************************************************************)
(* The S3 output's fileManager (libbeat/outputs/s3/file_manager.go): a     *)
(* single writer appends lines to a live file (slot 0), rotates the        *)
(* generation ring by size or by elapsed time and uploads the retired      *)
(* slot-1 file.                                                            *)
(*                                                                         *)
(* A path filePath(n) is represented by its slot number n.  A file is a    *)
(* record [id, bytes, mtime]: id names the inode (0 = no file at the       *)
(* slot), bytes is the length of its content, mtime its modification time  *)
(* in seconds.  Filesystem calls fail nondeterministically.                *)
(***************************************************************************)
EXTENDS Integers, FiniteSets, Sequences, TLC

\* ---- bounds of the model ------------------------------------------------
\* managerMaxFiles (1024 in the source) scaled down: slots 0..MaxFiles-1.
MaxFiles == 5
\* os.Create calls that may succeed in one behaviour.
MaxCreates == 3
\* The clock runs from 0 to MaxTime seconds.
MaxTime == 1
\* The configured *UploadEveryBytes.
SizeThreshold == 100
\* The configured *UploadEverySeconds when the time check is enabled.
TimeThreshold == 1
\* Writes of one behaviour that may stop short, after one byte of the line.
MaxShortWrites == 1

\* ---- inputs ---------------------------------------------------------------
KeepChoices == {2, 3}
\* len(line) of the lines handed to writeLine, before the '\n' is appended.
LineBytes == {49, 59}

Slots == 0 .. (MaxFiles - 1)

None == [id |-> 0, bytes |-> 0, mtime |-> 0]

\* A file left in the directory by an earlier run of the program.
OldFile(n) == [id |-> 0 - (n + 1), bytes |-> 7, mtime |-> 0]

NoUpload ==
  [state |-> "none", opened |-> FALSE, src |-> None, sessOk |-> FALSE,
   storeOk |-> FALSE, compressOk |-> FALSE, ret |-> "none", logged |-> "none"]

VARIABLES
  KeepFiles,            \* *manager.KeepFiles
  UploadEveryBytes,     \* *manager.UploadEveryBytes
  UploadEverySeconds,   \* *manager.UploadEverySeconds
  dir,                  \* the directory manager.Path: slot -> file
  current,              \* manager.current: "nil", "open" or "closed"
  current_size,         \* manager.current_size
  last,                 \* manager.last: the slot of the path, -1 for ""
  pc,                   \* where the writer is
  line,                 \* len(line) of the writeLine call in progress
  file_no,              \* the loop index of rotate's loops
  now,                  \* time.Now() in seconds
  nextId,               \* the next inode os.Create hands out
  up,                   \* the s3Upload call of the latest rotate
  ret,                  \* what the latest writeLine returned
  rotateRet,            \* what the rotate of the latest writeLine returned
  srRes,                \* what shouldRotate returned to the latest writeLine
  crashAt,              \* the function that panicked, "" if none
  pre,                  \* history: dir when the latest rotate was entered
  pruned,               \* history: slots removed by the prune loop of that rotate
  pruneDone,            \* history: that rotate ran its os.Remove of line 298,
                        \*   and the call did not fail on an existing file
  shortWrites,          \* history: the writes that stopped short so far
  sizeAtCall,           \* history: current_size when the rotate in progress, or
                        \*   just failed, was entered
  rotatedAt,            \* history: the time of the latest os.Create, -1 if none
  keyIn,                \* s3KeyName: what os.Hostname and localIP answer
  keyClock,             \* s3KeyName: the reading of time.Now().UTC()
  keys,                 \* s3KeyName: the keys returned so far, with their readings
  cfgIn,                \* checkIfConfigSane: the manager it was called on
  cfg,                  \* checkIfConfigSane: the manager as it is now
  cfgErr                \* checkIfConfigSane: its result, "none" before the call

vars ==
  << KeepFiles, UploadEveryBytes, UploadEverySeconds, dir, current, current_size,
     last, pc, line, file_no, now, nextId, up, ret, rotateRet, srRes, crashAt,
     pre, pruned, pruneDone, shortWrites, sizeAtCall, rotatedAt,
     keyIn, keyClock, keys, cfgIn, cfg, cfgErr >>

cfgVars == << KeepFiles, UploadEveryBytes, UploadEverySeconds >>

\* the variables of s3KeyName and checkIfConfigSane, which the writer's steps
\* leave alone
pureVars == << keyIn, keyClock, keys, cfgIn, cfg, cfgErr >>

\* ---- helpers ----------------------------------------------------------------
fileExists(n) == n \in Slots /\ dir[n].id # 0

Occupied(d) == {n \in Slots : d[n].id # 0}

\* shouldRotate, line 109
SizeDueStrict(size) == size > UploadEveryBytes
SizeDue(size) == size >= UploadEveryBytes

\* shouldRotate: "true", "false", or "panic" (fileInfo is nil when Lstat fails
\* and fileInfo.ModTime() is called all the same).
shouldRotate ==
  IF current = "nil" THEN "true"
  ELSE IF SizeDue(current_size) THEN "true"
  ELSE IF UploadEverySeconds > 0
    THEN IF ~fileExists(1) THEN "panic"
         ELSE IF now - dir[1].mtime >= UploadEverySeconds THEN "true" ELSE "false"
  ELSE "false"

\* rotate, line 259: the first slot of the prune loop
PruneStart == KeepFiles

\* rotate, line 269: the first and the last slot of the shift loop
ShiftStartShort == KeepFiles - 2
ShiftStart == KeepFiles - 1

ShiftEndShort == 0 + 1
ShiftEnd == 0

\* rotate, line 281: the slot a file at fileNo is renamed to
RenameTargetSkip(fileNo) == fileNo + 2
RenameTarget(fileNo) == fileNo + 1

\* rotate, line 297: the slot removed after the new file is created
CleanupSlotBeyond == KeepFiles + 1
CleanupSlot == KeepFiles

\* s3Upload, lines 186-231: what the upload does to the files of the
\* directory d.  It opens manager.last for reading and removes, renames and
\* writes nothing.
S3UploadFilesRemoved(d) == [d EXCEPT ![1] = None]
S3UploadFiles(d) == d

\* ---- initial states ------------------------------------------------------
NoPtr == [set |-> FALSE, val |-> 0]

NoManager ==
  [Name |-> 0, Bucket |-> 0, KeepFiles |-> NoPtr, UploadEveryBytes |-> NoPtr,
   UploadEverySeconds |-> NoPtr]

NoTime ==
  [year |-> 0, month |-> 0, day |-> 0, hour |-> 0, minute |-> 0, second |-> 0,
   nsec |-> 0]

\* s3KeyName and checkIfConfigSane are not being looked at
PureIdle ==
  /\ keyIn = [hostname |-> << >>, hostErr |-> FALSE, localIP |-> << >>]
  /\ keyClock = NoTime
  /\ keys = << >>
  /\ cfgIn = NoManager
  /\ cfg = NoManager
  /\ cfgErr = "none"

InitCommon ==
  /\ KeepFiles \in KeepChoices
  /\ UploadEveryBytes = SizeThreshold
  /\ UploadEverySeconds \in {0, TimeThreshold}
  /\ current = "nil"
  /\ current_size = 0
  /\ last = -1
  /\ pc = "idle"
  /\ line = 0
  /\ file_no = 0
  /\ now = 0
  /\ nextId = 1
  /\ up = NoUpload
  /\ ret = "none"
  /\ rotateRet = "none"
  /\ srRes = "none"
  /\ crashAt = ""
  /\ pruned = {}
  /\ pruneDone = FALSE
  /\ shortWrites = 0
  /\ sizeAtCall = 0
  /\ rotatedAt = -1

\* The manager is constructed over a directory that may hold the files of an
\* earlier run.
Init ==
  /\ InitCommon
  /\ PureIdle
  /\ \E S \in SUBSET Slots : dir = [n \in Slots |-> IF n \in S THEN OldFile(n) ELSE None]
  /\ pre = [n \in Slots |-> None]

\* The manager is constructed over an empty directory.
InitEmpty ==
  /\ InitCommon
  /\ PureIdle
  /\ dir = [n \in Slots |-> None]
  /\ pre = [n \in Slots |-> None]

\* ---- actions ----------------------------------------------------------------
EmptyDir == [n \in Slots |-> None]

\* rotate returns the error e, and writeLine returns it to its caller.
RotateFailGoesOn(e) ==
  /\ pc' = "write"
  /\ rotateRet' = e
  /\ ret' = ret
  /\ line' = line
  /\ srRes' = srRes

RotateFail(e) ==
  /\ pc' = "idle"
  /\ rotateRet' = e
  /\ ret' = e
  /\ line' = 0
  /\ srRes' = "none"

\* Time passes between two calls of the writer, or while an upload runs.  The
\* clock is read by the time check of shouldRotate alone, so it is left at
\* rest when that check is disabled.
Tick ==
  /\ pc \in {"idle", "uploading"}
  /\ UploadEverySeconds > 0
  /\ now < MaxTime
  /\ now' = now + 1
  /\ UNCHANGED << pureVars, cfgVars, dir, current, current_size, last, pc, line, file_no,
                  nextId, up, ret, rotateRet, srRes, crashAt, pre, pruned,
                  pruneDone, shortWrites, sizeAtCall, rotatedAt >>

\* writeLine, lines 85-87: called with a line of l bytes; shouldRotate decides
\* whether rotate is entered.
WriteLine(l) ==
  /\ pc = "idle"
  /\ shouldRotate = "true" => nextId <= MaxCreates
  /\ line' = l + 1
  /\ srRes' = shouldRotate
  /\ ret' = "none"
  /\ rotateRet' = "none"
  /\ pc' = CASE shouldRotate = "true" -> "rotate_close"
             [] shouldRotate = "false" -> "write"
             [] OTHER -> "crashed"
  /\ crashAt' = IF shouldRotate = "panic" THEN "shouldRotate" ELSE crashAt
  /\ pre' = IF shouldRotate = "true" THEN dir ELSE EmptyDir
  /\ pruned' = {}
  /\ pruneDone' = IF shouldRotate = "true" THEN FALSE ELSE pruneDone
  /\ sizeAtCall' = IF shouldRotate = "true" THEN current_size ELSE 0
  /\ UNCHANGED << pureVars, cfgVars, dir, current, current_size, last, file_no, now,
                  nextId, up, shortWrites, rotatedAt >>

\* rotate, lines 252-256: close the live file.  Close fails with "file
\* already closed" (errClosed) on a handle an earlier rotate has closed; a
\* handle whose Close failed (errClose) is closed as well.
RotateClose ==
  /\ pc = "rotate_close"
  /\ \E ok \in BOOLEAN :
       IF current = "nil" \/ (current = "open" /\ ok)
       THEN /\ current' = IF current = "nil" THEN "nil" ELSE "closed"
            /\ pc' = "prune"
            /\ file_no' = PruneStart
            /\ UNCHANGED << ret, rotateRet, line, srRes >>
       ELSE /\ current' = "closed"
            /\ RotateFail(IF current = "closed" THEN "errClosed" ELSE "errClose")
            /\ UNCHANGED file_no
  /\ UNCHANGED << pureVars, cfgVars, dir, current_size, last, now, nextId, up,
                  crashAt, pre, pruned, pruneDone, shortWrites, sizeAtCall, rotatedAt >>

\* rotate, lines 259-266: one iteration of the prune loop
Prune ==
  /\ pc = "prune"
  /\ \E ok \in BOOLEAN :
       IF fileExists(file_no) /\ ~ok
       THEN /\ RotateFail("errRemove")
            /\ file_no' = 0
            /\ UNCHANGED << dir, pruned >>
       ELSE /\ dir' = [dir EXCEPT ![file_no] = None]
            /\ pruned' = IF fileExists(file_no) THEN pruned \cup {file_no} ELSE pruned
            /\ IF file_no + 1 < MaxFiles
               THEN file_no' = file_no + 1 /\ pc' = "prune"
               ELSE file_no' = ShiftStart /\ pc' = "shift"
            /\ UNCHANGED << ret, rotateRet, line, srRes >>
  /\ UNCHANGED << pureVars, cfgVars, current, current_size, last, now, nextId, up,
                  crashAt, pre, pruneDone, shortWrites, sizeAtCall, rotatedAt >>

\* rotate, lines 269-285: one iteration of the shift loop
Shift ==
  /\ pc = "shift"
  /\ \E ok \in BOOLEAN :
       IF fileExists(file_no) /\ fileExists(file_no + 1)
       THEN /\ RotateFail("errConflict")
            /\ file_no' = 0
            /\ UNCHANGED dir
       ELSE IF fileExists(file_no) /\ ~ok
       THEN /\ RotateFail("errRename")
            /\ file_no' = 0
            /\ UNCHANGED dir
       ELSE /\ dir' = IF fileExists(file_no)
                      THEN [dir EXCEPT ![RenameTarget(file_no)] = dir[file_no],
                                       ![file_no] = None]
                      ELSE dir
            /\ IF file_no - 1 >= ShiftEnd
               THEN file_no' = file_no - 1 /\ pc' = "shift"
               ELSE file_no' = 0 /\ pc' = "create"
            /\ UNCHANGED << ret, rotateRet, line, srRes >>
  /\ UNCHANGED << pureVars, cfgVars, current, current_size, last, now, nextId, up,
                  crashAt, pre, pruned, pruneDone, shortWrites, sizeAtCall, rotatedAt >>

\* rotate, lines 288-294: create the new live file (os.Create truncates a
\* file that is still at slot 0)
Create ==
  /\ pc = "create"
  /\ \E ok \in BOOLEAN :
       IF ok
       THEN /\ dir' = [dir EXCEPT ![0] = [id |-> nextId, bytes |-> 0, mtime |-> now]]
            /\ nextId' = nextId + 1
            /\ current' = "open"
            /\ current_size' = 0
            /\ rotatedAt' = now
            /\ pc' = "cleanup"
            /\ UNCHANGED << ret, rotateRet, line, srRes >>
       ELSE /\ RotateFail("errCreate")
            /\ UNCHANGED << dir, nextId, current, current_size, rotatedAt >>
  /\ UNCHANGED << pureVars, cfgVars, last, file_no, now, up, crashAt, pre, pruned,
                  pruneDone, shortWrites, sizeAtCall >>

\* rotate, lines 297-298: remove the extra file, errors ignored
Cleanup ==
  /\ pc = "cleanup"
  /\ \E ok \in BOOLEAN :
       /\ dir' = IF ok THEN [dir EXCEPT ![CleanupSlot] = None] ELSE dir
       /\ pruneDone' = (ok \/ ~fileExists(CleanupSlot))
  /\ pc' = "upload_start"
  /\ UNCHANGED << pureVars, cfgVars, current, current_size, last, line, file_no, now, nextId, up,
                  ret, rotateRet, srRes, crashAt, pre, pruned, shortWrites, sizeAtCall,
                  rotatedAt >>

\* rotate, lines 301-303, and s3Upload, lines 187-211: the path of slot 1 is
\* recorded and s3Upload is called in the writer's own goroutine; it opens
\* the file (going on when that fails) and creates the session.
UploadStart ==
  /\ pc = "upload_start"
  /\ last' = 1
  /\ \E openOk \in BOOLEAN, sOk \in BOOLEAN :
       LET opened == fileExists(1) /\ openOk IN
       /\ up' = [state |-> IF sOk THEN "inflight" ELSE "done",
                 opened |-> opened,
                 src |-> IF opened THEN dir[1] ELSE None,
                 sessOk |-> sOk, storeOk |-> FALSE, compressOk |-> FALSE,
                 ret |-> IF sOk THEN "none" ELSE "err",
                 logged |-> "none"]
       \* session.NewSession failed: s3Upload returns err, rotate drops it
       /\ pc' = IF sOk THEN "uploading" ELSE "write"
       /\ rotateRet' = IF sOk THEN rotateRet ELSE "nil"
  /\ dir' = S3UploadFiles(dir)
  /\ UNCHANGED << pureVars, cfgVars, current, current_size, line, file_no, now, nextId, ret,
                  srRes, crashAt, pre, pruned, pruneDone, shortWrites, sizeAtCall,
                  rotatedAt >>

\* s3Upload, lines 214-230: uploader.Upload returns.  The compressing
\* goroutine drops the errors of io.Copy and closes the pipe without one, so
\* a failed compression is not seen by the upload.  A rejected upload returns
\* a nil result, whose Location is read all the same.
UploadFinish ==
  /\ pc = "uploading"
  /\ \E stOk \in BOOLEAN, cOk \in BOOLEAN :
       /\ up' = [up EXCEPT !.state = "done", !.storeOk = stOk, !.compressOk = cOk,
                           !.ret = IF stOk THEN "nil" ELSE "panic",
                           !.logged = IF stOk THEN "success" ELSE "failure"]
       /\ pc' = IF stOk THEN "write" ELSE "crashed"
       /\ crashAt' = IF stOk THEN crashAt ELSE "s3Upload"
       /\ rotateRet' = IF stOk THEN "nil" ELSE rotateRet
  /\ dir' = S3UploadFiles(dir)
  /\ UNCHANGED << pureVars, cfgVars, current, current_size, last, line, file_no, now, nextId,
                  ret, srRes, pre, pruned, pruneDone, shortWrites, sizeAtCall, rotatedAt >>

\* writeLine, lines 93-100: n bytes of the line reach the file; the write
\* fails when n is short of the line (errWrite), and always on a closed
\* handle (errWriteClosed).
Write ==
  /\ pc = "write"
  /\ \E n \in {0, 1, line} :
       /\ current = "closed" => n = 0
       /\ n = 1 => shortWrites < MaxShortWrites
       /\ shortWrites' = IF n = 1 THEN shortWrites + 1 ELSE shortWrites
       /\ dir' = IF n > 0
                 THEN [dir EXCEPT ![0] = [@ EXCEPT !.bytes = @ + n, !.mtime = now]]
                 ELSE dir
       /\ current_size' = IF n = line THEN current_size + line ELSE current_size
       /\ ret' = IF n = line THEN "nil"
                 ELSE IF current = "closed" THEN "errWriteClosed" ELSE "errWrite"
  /\ pc' = "idle"
  /\ line' = 0
  /\ srRes' = "none"
  /\ rotateRet' = "none"
  /\ up' = NoUpload
  /\ pre' = EmptyDir
  /\ pruned' = {}
  /\ sizeAtCall' = 0
  /\ UNCHANGED << pureVars, cfgVars, current, last, file_no, now, nextId, crashAt, pruneDone,
                  rotatedAt >>

Next ==
  \/ Tick
  \/ \E l \in LineBytes : WriteLine(l)
  \/ RotateClose
  \/ Prune
  \/ Shift
  \/ Create
  \/ Cleanup
  \/ UploadStart
  \/ UploadFinish
  \/ Write

Spec == Init /\ [][Next]_vars

SpecEmpty == InitEmpty /\ [][Next]_vars

\* ---- checkIfConfigSane, lines 59-83 ------------------------------------------
\* The writer's variables, which checkIfConfigSane and s3KeyName leave alone.
writerVars ==
  << KeepFiles, UploadEveryBytes, UploadEverySeconds, dir, current, current_size,
     last, pc, line, file_no, now, nextId, up, ret, rotateRet, srRes, crashAt,
     pre, pruned, pruneDone, shortWrites, sizeAtCall, rotatedAt >>

managerMaxFiles == 1024
defaultKeepFiles == 7
defaultUploadEveryBytes == 10 * 1024 * 1024
defaultUploadEverySeconds == 0

\* A pointer field of the manager that has been set to v.
Ptr(v) == [set |-> TRUE, val |-> v]

\* if manager.X == nil { manager.X = new(..); *manager.X = d }
OrDefault(p, d) == IF p.set THEN p ELSE Ptr(d)

\* len(manager.Name) and len(manager.Bucket) of the managers looked at
NameLens == {0, 1, 4}
BucketLens == {0, 1}
\* the pointer fields of the managers looked at
KeepFilesPtrs == {NoPtr} \cup {Ptr(k) : k \in {-1, 0, 1, 2, 3, 7, 1023, 1024, 1025}}
UploadEveryBytesPtrs == {NoPtr} \cup {Ptr(b) : b \in {0, 1, 20 * 1024 * 1024}}
UploadEverySecondsPtrs == {NoPtr} \cup {Ptr(t) : t \in {-1, 0, 60}}

\* line 79: the retention count is refused
KeepRefusedAbove(k) == k < 2 \/ k > managerMaxFiles
KeepRefused(k) == k < 2 \/ k >= managerMaxFiles

\* s3KeyName is not being looked at
KeyIdle ==
  /\ keyIn = [hostname |-> << >>, hostErr |-> FALSE, localIP |-> << >>]
  /\ keyClock = NoTime
  /\ keys = << >>

InitConfig ==
  /\ InitCommon
  /\ KeyIdle
  /\ dir = EmptyDir
  /\ pre = EmptyDir
  /\ cfgIn \in [Name : NameLens, Bucket : BucketLens, KeepFiles : KeepFilesPtrs,
                UploadEveryBytes : UploadEveryBytesPtrs,
                UploadEverySeconds : UploadEverySecondsPtrs]
  /\ cfg = cfgIn
  /\ cfgErr = "none"

\* One call of checkIfConfigSane on the manager cfg.
CheckIfConfigSane ==
  /\ IF cfg.Name = 0
       THEN cfgErr' = "errName" /\ cfg' = cfg
     ELSE IF cfg.Bucket = 0
       THEN cfgErr' = "errBucket" /\ cfg' = cfg
     ELSE
       LET m == [cfg EXCEPT
                   !.KeepFiles = OrDefault(@, defaultKeepFiles),
                   !.UploadEveryBytes = OrDefault(@, defaultUploadEveryBytes),
                   !.UploadEverySeconds = OrDefault(@, defaultUploadEverySeconds)]
       IN /\ cfg' = m
          /\ cfgErr' = IF KeepRefused(m.KeepFiles.val) THEN "errKeep" ELSE "nil"
  /\ UNCHANGED << writerVars, keyIn, keyClock, keys, cfgIn >>

NextConfig == CheckIfConfigSane

SpecConfig == InitConfig /\ [][NextConfig]_vars

\* ---- s3KeyName, lines 155-184 ------------------------------------------------
\* s3KeyName calls that one behaviour makes
MaxKeys == 2

\* A string is the sequence of its characters.  The characters that occur in
\* a key, in the order of their byte values.
Ascii ==
  << ".", "/", "0", "1", "2", "3", "4", "5", "6", "7", "8", "9", "T", "Z", "_",
     "a", "b", "c", "e", "h", "l", "o", "s", "t", "w" >>

Code(c) == CHOOSE i \in 1 .. Len(Ascii) : Ascii[i] = c

Codes(s) == [i \in 1 .. Len(s) |-> Code(s[i])]

\* a < b for sequences of numbers, element by element and the shorter first
RECURSIVE LexLess(_, _)
LexLess(a, b) ==
  IF a = << >> THEN b # << >>
  ELSE IF b = << >> THEN FALSE
  ELSE IF a[1] # b[1] THEN a[1] < b[1]
  ELSE LexLess(Tail(a), Tail(b))

\* Go's a < b for strings
StringLess(a, b) == LexLess(Codes(a), Codes(b))

DigitChars == << "0", "1", "2", "3", "4", "5", "6", "7", "8", "9" >>

\* fmt's %d of n >= 0
RECURSIVE Digits(_)
Digits(n) ==
  IF n < 10 THEN << DigitChars[n + 1] >>
  ELSE Digits(n \div 10) \o << DigitChars[(n % 10) + 1] >>

\* fmt's %0wd of n >= 0
RECURSIVE Pad(_, _)
Pad(n, w) ==
  LET d == Digits(n) IN
  IF Len(d) >= w THEN d ELSE << "0" >> \o Pad(n, w - 1)

Localhost == << "l", "o", "c", "a", "l", "h", "o", "s", "t" >>

\* what os.Hostname answers on the machines looked at
Hostnames == {<< >>, Localhost, << "w", "e", "b", "1" >>}
\* what localIP answers: "" or the first non-loopback IPv4 address
LocalIPs == {<< >>, << "1", "0", ".", "0", ".", "0", ".", "5" >>}

\* the readings of the clock looked at
Reading(y, mo, d, h, mi, s, ns) ==
  [year |-> y, month |-> mo, day |-> d, hour |-> h, minute |-> mi, second |-> s,
   nsec |-> ns]

Readings ==
  { Reading(2016, 12, 31, 23, 59, 59, 999999999),
    Reading(2017, 1, 1, 0, 0, 0, 0),
    Reading(2017, 1, 1, 0, 0, 0, 1),
    Reading(2017, 1, 1, 9, 5, 7, 10),
    Reading(2017, 1, 1, 10, 0, 0, 2) }

\* the reading a is earlier than the reading b
Before(a, b) ==
  LexLess(<< a.year, a.month, a.day, a.hour, a.minute, a.second, a.nsec >>,
          << b.year, b.month, b.day, b.hour, b.minute, b.second, b.nsec >>)

\* lines 157-170
Host ==
  LET h0 == IF keyIn.hostErr THEN << >> ELSE keyIn.hostname
      h1 == IF h0 = << >> \/ h0 = Localhost THEN keyIn.localIP ELSE h0
  IN IF h1 = << >> THEN Localhost ELSE h1

\* lines 174-177
TimeIso8601(t) ==
  Digits(t.year) \o Pad(t.month, 2) \o Pad(t.day, 2) \o << "T" >>
    \o Pad(t.hour, 2) \o Pad(t.minute, 2) \o Pad(t.second, 2) \o << "." >>
    \o Pad(t.nsec, 9) \o << "Z" >>

\* lines 180-182
KeyName(host, t) ==
  << "/" >> \o Digits(t.year) \o << "/" >> \o Pad(t.month, 2) \o << "/" >>
    \o Pad(t.day, 2) \o << "/" >> \o host \o << "_" >> \o TimeIso8601(t)

\* checkIfConfigSane is not being looked at
ConfigIdle ==
  /\ cfgIn = NoManager
  /\ cfg = NoManager
  /\ cfgErr = "none"

InitKey ==
  /\ InitCommon
  /\ ConfigIdle
  /\ dir = EmptyDir
  /\ pre = EmptyDir
  /\ keyIn \in [hostname : Hostnames, hostErr : BOOLEAN, localIP : LocalIPs]
  /\ keyClock \in Readings
  /\ keys = << >>

\* The clock goes on to a later reading.
KeyTick ==
  /\ \E r \in Readings : Before(keyClock, r) /\ keyClock' = r
  /\ UNCHANGED << writerVars, keyIn, keys, cfgIn, cfg, cfgErr >>

\* One call of s3KeyName: time.Now().UTC() reads keyClock.
S3KeyName ==
  /\ Len(keys) < MaxKeys
  /\ keys' = Append(keys, [key |-> KeyName(Host, keyClock), at |-> keyClock])
  /\ UNCHANGED << writerVars, keyIn, keyClock, cfgIn, cfg, cfgErr >>

NextKey ==
  \/ KeyTick
  \/ S3KeyName

SpecKey == InitKey /\ [][NextKey]_vars

\* ---- properties ------------------------------------------------------------
Exists(f) == f.id # 0

Count(d) == Cardinality(Occupied(d))

\* rotate has just returned nil to writeLine; pre is the directory it was
\* entered with.
RotateReturnedNil == pc = "write" /\ rotateRet = "nil"

FiveFilesKeepThree == KeepFiles = 3 /\ Occupied(pre) = {0, 1, 2, 3, 4}

\* C1 as stated: with KeepFiles = 3 and files at slots 0..4, a successful
\* rotate prunes slot 4 alone and ends with files at exactly slots 0,1,2,3.
C1_Original ==
  (RotateReturnedNil /\ FiveFilesKeepThree)
    => (pruned = {4} /\ Occupied(dir) = {0, 1, 2, 3})

\* C1 amended: with KeepFiles = 3 and files at slots 0..4, a successful rotate
\* prunes slots 3 and 4, shifts 2->3, 1->2, 0->1, creates a new empty slot 0
\* and then removes slot 3 again: it ends with files at exactly slots 0,1,2
\* (slot 3 stays, holding the old slot 2, only when that last removal fails).
C1_RotateFiveKeepThree ==
  /\ (pc = "cleanup" /\ FiveFilesKeepThree)
       => /\ pruned = {3, 4}
          /\ Occupied(dir) = {0, 1, 2, 3}
          /\ dir[3] = pre[2]
  /\ (RotateReturnedNil /\ FiveFilesKeepThree)
       => /\ pruned = {3, 4}
          /\ dir[1] = pre[0] /\ dir[2] = pre[1]
          /\ dir[0].id > 0 /\ dir[0].bytes = 0
          /\ pruneDone => Occupied(dir) = {0, 1, 2}
          /\ ~pruneDone => (Occupied(dir) = {0, 1, 2, 3} /\ dir[3] = pre[2])

C1_Witness == RotateReturnedNil /\ FiveFilesKeepThree /\ pruneDone

\* C2: from an empty directory there are never more than KeepFiles + 1
\* generation files, and never more than KeepFiles from the moment a rotate
\* has done its last removal until the next rotate is entered.
C2_RetentionBound ==
  /\ Count(dir) <= KeepFiles + 1
  /\ pruneDone => Count(dir) <= KeepFiles

\* a rotate entered with a full ring has returned
C2_Witness ==
  /\ RotateReturnedNil /\ pruneDone
  /\ Count(pre) = KeepFiles
  /\ Count(dir) = KeepFiles

\* C3 as stated: a rotate entered with files at slots n and n+1, n <
\* KeepFiles - 1, and not hit by a filesystem error fails with the conflict
\* error and leaves slot n as it was.
C3_Original ==
  \A n \in 0 .. (KeepFiles - 2) :
    (rotateRet \in {"nil", "errConflict"} /\ Exists(pre[n]) /\ Exists(pre[n + 1]))
      => (rotateRet = "errConflict" /\ dir[n] = pre[n])

\* C3 amended: rotate never fails with the conflict error, because the shift
\* loop has moved slot n+1 away before it looks at slot n; a rotate entered
\* with files at slots n and n+1, n < KeepFiles - 1, that returns nil has
\* renamed the file of slot n to slot n+1.
C3_NoConflict ==
  /\ rotateRet # "errConflict"
  /\ \A n \in 0 .. (KeepFiles - 2) :
       (RotateReturnedNil /\ Exists(pre[n]) /\ Exists(pre[n + 1]))
         => (dir[n + 1] = pre[n] /\ dir[n] # pre[n])

C3_Witness ==
  /\ RotateReturnedNil
  /\ \E n \in 0 .. (KeepFiles - 2) :
       Exists(pre[n]) /\ Exists(pre[n + 1]) /\ dir[n + 1] = pre[n]

\* C4 as stated: when the upload of a rotation has failed (the session could
\* not be created or the store rejected the object), nothing has crashed,
\* rotate has returned nil and the new live file is open for the write.
C4_Original ==
  (up.state = "done" /\ (~up.sessOk \/ ~up.storeOk))
    => (crashAt = "" /\ rotateRet = "nil" /\ current = "open")

\* shouldRotate has just been evaluated and rotate was not entered: the
\* manager and the directory are as shouldRotate saw them.
AfterShouldRotate ==
  \/ pc = "write" /\ rotateRet = "none"
  \/ pc = "crashed" /\ crashAt = "shouldRotate"

\* C5 as stated: with the time check enabled, a live file open, the size
\* threshold not reached and no file at slot 1, shouldRotate returns false.
C5_Original ==
  (/\ AfterShouldRotate
   /\ UploadEverySeconds > 0
   /\ current = "open"
   /\ current_size < UploadEveryBytes
   /\ ~fileExists(1))
    => srRes = "false"

\* C6 as stated: with the time check disabled, the write whose bytes take the
\* tracked size from below the threshold to the threshold or beyond is made
\* by a writeLine call that has rotated.
C6_Original ==
  [][(/\ pc = "write" /\ pc' = "idle"
      /\ UploadEverySeconds = 0
      /\ current_size < UploadEveryBytes
      /\ current_size' >= UploadEveryBytes)
       => rotateRet = "nil"]_vars

\* C6 amended: with the time check disabled and a live file open, a writeLine
\* call rotates exactly when the tracked size is at or beyond the threshold
\* when the call is entered, that is in the first call after the write that
\* crossed the threshold and not in the crossing write or before; the rotation
\* sets the tracked size back to 0, so one crossing gives one rotation.
C6_RotateAfterCrossing ==
  [][/\ (pc = "idle" /\ pc' # "idle" /\ UploadEverySeconds = 0 /\ current = "open")
          => ((pc' = "rotate_close") <=> (current_size >= UploadEveryBytes))
     /\ (pc = "create" /\ pc' = "cleanup") => current_size' = 0]_vars

C6_Witness ==
  /\ pc = "rotate_close" /\ srRes = "true"
  /\ UploadEverySeconds = 0
  /\ current = "open"
  /\ current_size >= UploadEveryBytes

\* C7 as stated: the tracked byte count of the open live file is the number
\* of bytes written to it.
C7_Original == current = "open" => current_size = dir[0].bytes

\* C8 as stated: an upload in flight does not hold the writer, which is back
\* in writeLine or has returned from it.
C8_Original == up.state = "inflight" => pc \in {"write", "idle"}

\* C9 as stated: for every n in [0, KeepFiles), if slot n+1 held a file when
\* a successful rotate was entered, slot n+1 holds after it what slot n held
\* before it.
C9_Original ==
  \A n \in 0 .. (KeepFiles - 1) :
    (RotateReturnedNil /\ Exists(pre[n + 1])) => dir[n + 1] = pre[n]

\* C9 amended: for every n in [0, KeepFiles - 1), if slot n+1 held a file when
\* a successful rotate was entered, slot n+1 holds after it what slot n held
\* before it; and every file found at a slot m >= 1 after the rotate is,
\* byte for byte, the file slot m-1 held before it.  (The file of slot
\* KeepFiles - 1 is moved to slot KeepFiles and removed there.)
C9_RenameOnly ==
  /\ \A n \in 0 .. (KeepFiles - 2) :
       (RotateReturnedNil /\ Exists(pre[n + 1])) => dir[n + 1] = pre[n]
  /\ \A m \in 1 .. (MaxFiles - 1) :
       (RotateReturnedNil /\ Exists(dir[m])) => dir[m] = pre[m - 1]

C9_Witness ==
  /\ RotateReturnedNil
  /\ \E n \in 0 .. (KeepFiles - 2) :
       Exists(pre[n + 1]) /\ Exists(pre[n]) /\ dir[n + 1] = pre[n]
  /\ Exists(pre[KeepFiles])

\* C10 as stated: s3Upload returns an error when the file could not be
\* opened, the compression failed or the session or the store failed, and
\* logs the upload as a success only when none of them did.
C10_Original ==
  up.state = "done" =>
    LET failed == ~up.opened \/ ~up.sessOk \/ ~up.compressOk \/ ~up.storeOk IN
    /\ failed => up.ret = "err"
    /\ up.logged = "success" => ~failed

\* C11 as stated: two calls of s3KeyName never return the same key, even at
\* the same clock reading; and on one host, within one UTC day, the key of the
\* later call is the greater string.
C11_Original ==
  \A i, j \in 1 .. Len(keys) :
    i < j =>
      /\ keys[i].key # keys[j].key
      /\ ( /\ keys[i].at.year = keys[j].at.year
           /\ keys[i].at.month = keys[j].at.month
           /\ keys[i].at.day = keys[j].at.day
           /\ Before(keys[i].at, keys[j].at) )
         => StringLess(keys[i].key, keys[j].key)

\* C12: checkIfConfigSane returns nil exactly when the name and the bucket
\* are non-empty and the retention count, 7 when unset, is in [2, 1024); and
\* after a nil return the unset thresholds are 10 MiB and 0, the retention
\* count is the one checked, and what was set is as it was.
C12_ConfigSane ==
  cfgErr # "none" =>
    LET keep == IF cfgIn.KeepFiles.set THEN cfgIn.KeepFiles.val ELSE 7 IN
    /\ cfgErr = "nil" <=>
         (cfgIn.Name > 0 /\ cfgIn.Bucket > 0 /\ keep >= 2 /\ keep < 1024)
    /\ cfgErr = "nil" =>
         /\ cfg.Name = cfgIn.Name
         /\ cfg.Bucket = cfgIn.Bucket
         /\ cfg.KeepFiles = Ptr(keep)
         /\ cfg.UploadEveryBytes =
              (IF cfgIn.UploadEveryBytes.set THEN cfgIn.UploadEveryBytes
               ELSE Ptr(10 * 1024 * 1024))
         /\ cfg.UploadEverySeconds =
              (IF cfgIn.UploadEverySeconds.set THEN cfgIn.UploadEverySeconds
               ELSE Ptr(0))

\* A manager with a name, a bucket, a set time threshold and nothing else was
\* accepted and got the defaults.
C12_Witness ==
  /\ cfgErr = "nil"
  /\ ~cfgIn.KeepFiles.set
  /\ ~cfgIn.UploadEveryBytes.set
  /\ cfgIn.UploadEverySeconds = Ptr(60)
  /\ cfg.KeepFiles = Ptr(7)
  /\ cfg.UploadEveryBytes = Ptr(10 * 1024 * 1024)

\* C13 as stated: between two calls the live handle is absent or open, never
\* a handle that has been closed.
C13_Original == pc = "idle" => current \in {"nil", "open"}

Contiguous(d) == \A n \in 1 .. (MaxFiles - 1) : Exists(d[n]) => Exists(d[n - 1])

C15_Original ==
  up.state # "none" => (Exists(pre[0]) /\ Exists(dir[1]) /\ dir[1] = pre[0])

\* C16 as stated: shouldRotate returns true or false, and true exactly when
\* there is no live handle, or the size is at the threshold or beyond, or the
\* time check is enabled, slot 1 holds a file and its age is at the threshold
\* or beyond.
C16_Original ==
  (pc = "rotate_close" \/ AfterShouldRotate)
    => /\ srRes \in {"true", "false"}
       /\ (srRes = "true") <=>
            \/ current = "nil"
            \/ current_size >= UploadEveryBytes
            \/ /\ UploadEverySeconds > 0
               /\ fileExists(1)
               /\ now - dir[1].mtime >= UploadEverySeconds

\* C17: the steps of s3Upload, whether it returns nil or an error, leave
\* every slot of the directory as it was.
C17_UploadLeavesFiles ==
  [][(pc \in {"upload_start", "uploading"}) => (dir' = dir)]_vars

\* s3Upload has returned nil after uploading the file of slot 1
C17_Witness ==
  /\ pc = "write" /\ up.state = "done" /\ up.ret = "nil"
  /\ up.opened /\ dir[1] = up.src

\* C18 as stated: a failed rotate can be retried, so no writeLine call fails
\* on the handle that a failed rotate has left closed, where no retry gets
\* past Close or Write.
C18_Original == ret \notin {"errClosed", "errWriteClosed"}

\* C19 as stated: with the time check enabled, a rotate that writeLine enters
\* for the age of slot 1 (a live file is open and below the size threshold)
\* comes at least UploadEverySeconds after the rotate before it.
C19_Original ==
  (/\ pc = "rotate_close"
   /\ UploadEverySeconds > 0
   /\ current = "open"
   /\ current_size < UploadEveryBytes)
    => now - rotatedAt >= UploadEverySeconds

RotateErrors ==
  {"errClose", "errClosed", "errRemove", "errConflict", "errRename", "errCreate"}

\* C20: when rotate has returned an error, writeLine has returned that error,
\* current_size is what it was when the call was entered and every file of the
\* directory is, byte for byte, a file that was there when rotate was entered;
\* when the error is that of Close, the directory is as it was.
C20_RotateErrorReturned ==
  rotateRet \in RotateErrors
    => /\ pc = "idle"
       /\ ret = rotateRet
       /\ current_size = sizeAtCall
       /\ \A n \in Slots : Exists(dir[n]) => \E m \in Slots : pre[m] = dir[n]
       /\ rotateRet \in {"errClose", "errClosed"} => dir = pre

\* Close has failed on a live file that had been written to
C20_Witness ==
  /\ pc = "idle" /\ rotateRet = "errClose" /\ ret = "errClose"
  /\ sizeAtCall > 0
  /\ Exists(dir[0])

====
